---------------------------- MODULE Spec2Model ----------------------------
(***************************************************************************)
(* Model of the GitHub OpenClaw Radar: github_openclaw_radar.py (fetch,    *)
(* recency filter, classifier, text renderer) and                          *)
(* notion_write_github_radar.py (block renderer and publisher).            *)
(*                                                                         *)
(* Python strings are modelled as sequences of one-character strings, so   *)
(* that lower(), strip(), replace(), startswith(), "in", len() and slicing *)
(* are computed character by character.  A key that is absent from a       *)
(* record models a JSON field that is missing or null: dict.get returns    *)
(* None for both.                                                          *)
(***************************************************************************)
EXTENDS Integers, Sequences, FiniteSets, TLC

VARIABLES
    prog,       \* which script runs: "radar", "notion", or "classify" (the pure classifier)
    pc,         \* position of main()
    env,        \* the process environment: the set of variables that are set
    now,        \* datetime.now(timezone.utc), in hours
    ghOut,      \* what the pending run_gh call returned (a list of records)
    fetched,    \* results of the fetch_* calls completed so far, by snapshot key
    snapshot,   \* the dict build_snapshot returned (<<>> before it returns)
    outputFile, \* content of github_openclaw_radar.json (<<>> while not written)
    report,     \* the text summarize returned: a sequence of lines
    stdout,     \* what the script printed
    children,   \* the Notion blocks built by notion main
    posted,     \* payloads POSTed to the Notion API
    stderr,     \* what the script wrote to stderr: messages and the traceback
    title,      \* classifier input
    label       \* classifier outputs, one per copy of classify_pr

vars == <<prog, pc, env, now, ghOut, fetched, snapshot, outputFile, report,
          stdout, children, posted, stderr, title, label>>

---------------------------------------------------------------------------
(* Python str operations *)

\* The character U+2016 that the text renderer substitutes for "|".
DoubleBar == "U+2016"

Whitespace == {" ", "\t", "\n"}

UpperCase == <<"A","B","C","D","E","F","G","H","I","J","K","L","M",
               "N","O","P","Q","R","S","T","U","V","W","X","Y","Z">>
LowerCase == <<"a","b","c","d","e","f","g","h","i","j","k","l","m",
               "n","o","p","q","r","s","t","u","v","w","x","y","z">>

LowerChar(c) ==
    IF \E i \in 1..Len(UpperCase) : UpperCase[i] = c
    THEN LowerCase[CHOOSE i \in 1..Len(UpperCase) : UpperCase[i] = c]
    ELSE c

\* str.lower()
Lower(s) == [i \in 1..Len(s) |-> LowerChar(s[i])]

\* str.replace(a, b) for single characters a, b
Replace(s, a, b) == [i \in 1..Len(s) |-> IF s[i] = a THEN b ELSE s[i]]

\* str.startswith(p)
StartsWith(s, p) ==
    /\ Len(p) <= Len(s)
    /\ \A i \in 1..Len(p) : s[i] = p[i]

\* p in s
Contains(s, p) ==
    \E k \in 0..(Len(s) - Len(p)) : \A i \in 1..Len(p) : s[k + i] = p[i]

\* str.strip()
Strip(s) ==
    LET keep == {i \in 1..Len(s) : s[i] \notin Whitespace}
    IN  IF keep = {} THEN <<>>
        ELSE LET lo == CHOOSE i \in keep : \A j \in keep : i <= j
                 hi == CHOOSE i \in keep : \A j \in keep : j <= i
             IN  SubSeq(s, lo, hi)

\* s[:n]
Prefix(s, n) == SubSeq(s, 1, IF Len(s) < n THEN Len(s) ELSE n)

Digits == <<"0","1","2","3","4","5","6","7","8","9">>

\* str(n) for a non-negative int
RECURSIVE IntToStr(_)
IntToStr(n) ==
    IF n < 10 THEN <<Digits[n + 1]>>
    ELSE IntToStr(n \div 10) \o <<Digits[(n % 10) + 1]>>

\* Whether dict.get(k) is not None: the key is present
Has(r, k) == k \in DOMAIN r

\* (d.get(k) or ""), for a text field
StrOrEmpty(r, k) == IF Has(r, k) THEN r[k] ELSE <<>>

\* str(d.get(k)) as an f-string interpolates it: None prints as "None"
StrOfGet(r, k) == IF Has(r, k) THEN r[k] ELSE <<"N","o","n","e">>

---------------------------------------------------------------------------
(* The classifier *)

kwFix      == <<"f","i","x">>
kwBug      == <<"b","u","g">>
kwError    == <<"e","r","r","o","r">>
kwFeat     == <<"f","e","a","t">>
kwFeature  == <<"f","e","a","t","u","r","e">>
kwAdd      == <<"a","d","d"," ">>
kwDocs     == <<"d","o","c","s">>
kwDoc      == <<"d","o","c">>
kwReadme   == <<"r","e","a","d","m","e">>
kwRefactor == <<"r","e","f","a","c","t","o","r">>

\* A plausible slip: the docs clause tested before the bug clause.
classify_pr_docs_first(t0) ==
    LET t == Lower(t0)
    IN  IF StartsWith(t, kwDocs) \/ Contains(t, kwDoc) \/ Contains(t, kwReadme)
        THEN "docs"
        ELSE IF StartsWith(t, kwFix) \/ Contains(t, kwBug) \/ Contains(t, kwError)
        THEN "bug"
        ELSE IF StartsWith(t, kwFeat) \/ Contains(t, kwFeature) \/ Contains(t, kwAdd)
        THEN "feature"
        ELSE IF Contains(t, kwRefactor) THEN "refactor"
        ELSE "other"

\* A plausible slip: "fix" tested as a substring instead of as a prefix.
classify_pr_fix_anywhere(t0) ==
    LET t == Lower(t0)
    IN  IF Contains(t, kwFix) \/ Contains(t, kwBug) \/ Contains(t, kwError)
        THEN "bug"
        ELSE IF StartsWith(t, kwFeat) \/ Contains(t, kwFeature) \/ Contains(t, kwAdd)
        THEN "feature"
        ELSE IF StartsWith(t, kwDocs) \/ Contains(t, kwDoc) \/ Contains(t, kwReadme)
        THEN "docs"
        ELSE IF Contains(t, kwRefactor) THEN "refactor"
        ELSE "other"

\* github_openclaw_radar.classify_pr
classify_pr(t0) ==
    LET t == Lower(t0)
    IN  IF StartsWith(t, kwFix) \/ Contains(t, kwBug) \/ Contains(t, kwError)
        THEN "bug"
        ELSE IF StartsWith(t, kwFeat) \/ Contains(t, kwFeature) \/ Contains(t, kwAdd)
        THEN "feature"
        ELSE IF StartsWith(t, kwDocs) \/ Contains(t, kwDoc) \/ Contains(t, kwReadme)
        THEN "docs"
        ELSE IF Contains(t, kwRefactor) THEN "refactor"
        ELSE "other"

\* The copy of classify_pr nested in notion_write_github_radar.main
notion_classify_pr(t0) ==
    LET t == Lower(t0)
    IN  IF StartsWith(t, kwFix) \/ Contains(t, kwBug) \/ Contains(t, kwError)
        THEN "bug"
        ELSE IF StartsWith(t, kwFeat) \/ Contains(t, kwFeature) \/ Contains(t, kwAdd)
        THEN "feature"
        ELSE IF StartsWith(t, kwDocs) \/ Contains(t, kwDoc) \/ Contains(t, kwReadme)
        THEN "docs"
        ELSE IF Contains(t, kwRefactor) THEN "refactor"
        ELSE "other"

---------------------------------------------------------------------------
(* Classifier inputs: titles made of at most MaxWords fragments *)

MaxWords == 3

Fragments ==
    { <<"F","i","x">>, <<"f","i","x">>, <<" ","b","u","g">>,
      <<"E","r","r","o","r">>, <<"f","e","a","t">>,
      <<"F","e","a","t","u","r","e">>, <<"A","d","d"," ">>, <<"a","d","d">>,
      <<"D","O","C","S">>, <<" ","d","o","c">>, <<"R","e","a","d","m","e">>,
      <<"R","e","f","a","c","t","o","r"," ","t","h","e"," ">>,
      <<" ","m","o","d","u","l","e">>, <<" ">>, <<"|">>, <<"e","d">> }

RECURSIVE TitlesOf(_)
TitlesOf(n) ==
    IF n = 0 THEN {<<>>}
    ELSE LET shorter == TitlesOf(n - 1)
         IN  shorter \cup {t \o f : t \in shorter, f \in Fragments}

Titles == TitlesOf(MaxWords)

NoLabels == [radar |-> "", notion |-> ""]

Idle ==
    /\ env = {} /\ now = 0 /\ ghOut = <<>> /\ fetched = <<>> /\ snapshot = <<>>
    /\ outputFile = <<>> /\ report = <<>> /\ stdout = <<>> /\ children = <<>>
    /\ posted = <<>> /\ stderr = <<>>

InitClassify ==
    /\ prog = "classify"
    /\ pc = "call"
    /\ title \in Titles
    /\ label = NoLabels
    /\ Idle

\* One call of each copy of classify_pr on the same title.
Classify ==
    /\ prog = "classify" /\ pc = "call"
    /\ label' = [radar |-> classify_pr(title), notion |-> notion_classify_pr(title)]
    /\ pc' = "done"
    /\ UNCHANGED <<prog, env, now, ghOut, fetched, snapshot, outputFile, report,
                   stdout, children, posted, stderr, title>>

NextClassify == Classify

SpecClassify == InitClassify /\ [][NextClassify]_vars

---------------------------------------------------------------------------
(* Timestamps and the recency filter *)

\* main() and both callers pass hours=24.
WindowHours == 24

\* The reading of datetime.now(timezone.utc) during a run, in hours.
Now0 == 100

\* A timestamp string is its date-time part (well-formed, read as the hour
\* count t, or garbage) followed by a suffix: "Z", a UTC offset, or nothing.
\* body "empty" is the empty string; body "none" is None.
Ts(body, t, suffix) == [body |-> body, t |-> t, suffix |-> suffix]
NoneTs  == Ts("none", 0, "")
EmptyTs == Ts("empty", 0, "")

OffsetHours(suffix) ==
    CASE suffix = "+00:00" -> 0
      [] suffix = "+08:00" -> 8
      [] suffix = "-05:00" -> -5

\* bool(s) of a str-or-None value
Truthy(ts) == ts.body \notin {"none", "empty"}

\* d.get(k) for a timestamp field
GetTs(r, k) == IF Has(r, k) THEN r[k] ELSE NoneTs

\* iso_to_dt: s.replace("Z", "+00:00"), then datetime.fromisoformat.
\* Result: ok = FALSE for ValueError; else a datetime, aware (with its UTC
\* instant) or naive.
iso_to_dt(s) ==
    LET suffix == IF s.suffix = "Z" THEN "+00:00" ELSE s.suffix
    IN  IF s.body # "datetime"
        THEN [ok |-> FALSE, aware |-> FALSE, utc |-> 0]
        ELSE IF suffix = ""
        THEN [ok |-> TRUE, aware |-> FALSE, utc |-> s.t]
        ELSE [ok |-> TRUE, aware |-> TRUE, utc |-> s.t - OffsetHours(suffix)]

\* now - dt with a naive dt, outside the try block of is_recent
TypeError == "TypeError: can't subtract offset-naive and offset-aware datetimes"

\* is_recent.  Only iso_to_dt is inside the try; subtracting a naive datetime
\* from the aware `now` raises TypeError after it.
is_recent(ts, hours, clock) ==
    LET dt == iso_to_dt(ts)
    IN  IF ~dt.ok THEN [exc |-> "none", val |-> FALSE]
        ELSE IF ~dt.aware THEN [exc |-> TypeError, val |-> FALSE]
        ELSE [exc |-> "none", val |-> clock - dt.utc <= hours]

\* A plausible slip: the fallback chain of the PR fetch stops at createdAt.
BestTsNoMerged(it, kind) ==
    IF Truthy(GetTs(it, "updatedAt")) THEN GetTs(it, "updatedAt")
    ELSE GetTs(it, "createdAt")

\* it.get("updatedAt") or it.get("createdAt") [or it.get("mergedAt")]
BestTs(it, kind) ==
    IF Truthy(GetTs(it, "updatedAt")) THEN GetTs(it, "updatedAt")
    ELSE IF kind # "corePRs" THEN GetTs(it, "createdAt")
    ELSE IF Truthy(GetTs(it, "createdAt")) THEN GetTs(it, "createdAt")
    ELSE GetTs(it, "mergedAt")

\* The loop of fetch_core_issues / fetch_core_prs / fetch_openclaw_repos over
\* what run_gh returned: [exc, val] with val the list `recent`.
RECURSIVE FilterRecent(_, _, _, _)
FilterRecent(items, kind, hours, clock) ==
    IF items = <<>> THEN [exc |-> "none", val |-> <<>>]
    ELSE LET it      == Head(items)
             updated == BestTs(it, kind)
             r       == IF Truthy(updated) THEN is_recent(updated, hours, clock)
                        ELSE [exc |-> "none", val |-> FALSE]
         IN  IF r.exc # "none" THEN [exc |-> r.exc, val |-> <<>>]
             ELSE LET rest == FilterRecent(Tail(items), kind, hours, clock)
                  IN  IF rest.exc # "none" THEN rest
                      ELSE [exc |-> "none",
                            val |-> IF r.val THEN <<it>> \o rest.val ELSE rest.val]

---------------------------------------------------------------------------
(* Shared pieces of the two renderers *)

\* issues[:10], prs[:10], repos[:10]
DisplayCap == 10

\* if len(desc) > 80: desc = desc[:77] + "..."
TruncLimit == 80
TruncKeep  == 77

Ellipsis == <<".", ".", ".">>
Unknown  == <<"?">>

LabelText ==
    [bug      |-> <<"b","u","g">>,
     feature  |-> <<"f","e","a","t","u","r","e">>,
     docs     |-> <<"d","o","c","s">>,
     refactor |-> <<"r","e","f","a","c","t","o","r">>,
     other    |-> <<"o","t","h","e","r">>]

\* d.get(k) or default, for a text field
StrOr(r, k, default) == IF Has(r, k) /\ r[k] # <<>> THEN r[k] ELSE default

\* str(it.get("number"))
NumText(it) == IF Has(it, "number") THEN IntToStr(it.number) ELSE <<"N","o","n","e">>

\* (it.get(k) or {}).get("login") if isinstance(it.get(k), dict) else None,
\* followed by `or "?"`.  The field, when present, is a dict.
LoginOf(it, k) ==
    IF Has(it, k) /\ Has(it[k], "login") /\ it[k].login # <<>>
    THEN it[k].login
    ELSE Unknown

\* A plausible slip: the slice keeps one row fewer.
FirstRowsShort(s) == SubSeq(s, 1, IF Len(s) < DisplayCap - 1 THEN Len(s) ELSE DisplayCap - 1)

\* s[:10]
FirstRows(s) == SubSeq(s, 1, IF Len(s) < DisplayCap THEN Len(s) ELSE DisplayCap)

\* A plausible slip: the comparison is >= instead of >.
TruncateAtLimit(desc) ==
    IF Len(desc) >= TruncLimit THEN Prefix(desc, TruncKeep) \o Ellipsis ELSE desc

\* if len(desc) > 80: desc = desc[:77] + "..."
Truncate(desc) ==
    IF Len(desc) > TruncLimit THEN Prefix(desc, TruncKeep) \o Ellipsis ELSE desc

\* The three summary sentences, as both renderers format them.
SummaryIssues(n) == <<"Issues updated: about ">> \o IntToStr(n) \o <<" items">>
SummaryPRs(n)    == <<"PRs updated: about ">> \o IntToStr(n)
                    \o <<" items (classified bug/feature/docs/other)">>
SummaryRepos(n)  == <<"Recently updated OpenClaw repos: about ">> \o IntToStr(n)
                    \o <<" repos">>

---------------------------------------------------------------------------
(* The text renderer: summarize.  A line is a sequence of characters; a     *)
(* fixed piece of text is kept as one element.  The result models the list  *)
(* `lines` that "\n".join turns into the report.                            *)

Bullet == <<"-", " ">>

HeadingIssues == <<"### [openclaw/openclaw] Issues (last {hours} h)">>
HeadingPRs    == <<"### [openclaw/openclaw] Pull Requests (bug/feature/docs/other)">>
HeadingRepos  == <<"### [GitHub] recently updated OpenClaw repos">>
NoIssues      == <<"- no new or updated issue", "\n">>
NoPRs         == <<"- no new or updated PR", "\n">>
NoRepos       == <<"- no new or updated repo">>
TableHeadIssues == <<"| # | state | author | title |">>
TableRuleIssues == <<"|---|------|--------|------|">>
TableHeadPRs    == <<"| # | type | state | author | title |">>
TableRulePRs    == <<"|---|------|------|------|------|">>
TableHeadRepos  == <<"| Repo | author | description |">>
TableRuleRepos  == <<"|------|------|------|">>

Sep == <<" ", "|", " ">>

\* f"[{text}]({url})"
MdLink(text, url) == <<"[">> \o text \o <<"]", "(">> \o url \o <<")">>

\* f"| {num} | {state} | {author} | [{title}]({url}) |"
IssueLine(it) ==
    LET ttl    == Replace(Strip(StrOrEmpty(it, "title")), "|", DoubleBar)
        state  == StrOr(it, "state", Unknown)
        author == LoginOf(it, "author")
        url    == StrOfGet(it, "url")
    IN  <<"|", " ">> \o NumText(it) \o Sep \o state \o Sep \o author \o Sep
        \o MdLink(ttl, url) \o <<" ", "|">>

\* f"| {num} | {pr_type} | {state} | {author} | [{title}]({url}) |"
PRLine(it) ==
    LET ttl     == Replace(Strip(StrOrEmpty(it, "title")), "|", DoubleBar)
        state   == StrOr(it, "state", Unknown)
        author  == LoginOf(it, "author")
        url     == StrOfGet(it, "url")
        pr_type == classify_pr(ttl)
    IN  <<"|", " ">> \o NumText(it) \o Sep \o LabelText[pr_type] \o Sep \o state
        \o Sep \o author \o Sep \o MdLink(ttl, url) \o <<" ", "|">>

\* f"| [{full}]({url}) | {owner} | {desc} |"
RepoLine(r) ==
    LET full  == Replace(StrOr(r, "fullName", StrOrEmpty(r, "name")), "|", DoubleBar)
        desc  == Replace(Strip(StrOrEmpty(r, "description")), "|", DoubleBar)
        url   == StrOfGet(r, "url")
        owner == LoginOf(r, "owner")
    IN  <<"|", " ">> \o MdLink(full, url) \o Sep \o owner \o Sep \o Truncate(desc)
        \o <<" ", "|">>

\* for it in issues[:10] / prs[:10] / repos[:10]: lines.append(...)
IssueLines(items) == [i \in 1..Len(FirstRows(items)) |-> IssueLine(FirstRows(items)[i])]
PRLines(items)    == [i \in 1..Len(FirstRows(items)) |-> PRLine(FirstRows(items)[i])]
RepoLines(items)  == [i \in 1..Len(FirstRows(items)) |-> RepoLine(FirstRows(items)[i])]

\* issue_count, pr_count, repo_count
summary_counts(issues, prs, repos) == <<Len(issues), Len(prs), Len(repos)>>

summarize(snap) ==
    LET hours  == snap.windowHours
        issues == snap.coreIssues
        prs    == snap.corePRs
        repos  == snap.repos
        counts == summary_counts(issues, prs, repos)
    IN  << <<"## GitHub OpenClaw Radar (last ">> \o IntToStr(hours) \o <<" h)", "\n">>,
           <<"### Summary">>,
           Bullet \o SummaryIssues(counts[1]),
           Bullet \o SummaryPRs(counts[2]),
           Bullet \o SummaryRepos(counts[3]),
           <<>>,
           HeadingIssues >>
        \o (IF issues = <<>> THEN <<NoIssues>>
            ELSE <<TableHeadIssues, TableRuleIssues>> \o IssueLines(issues) \o << <<>> >>)
        \o <<HeadingPRs>>
        \o (IF prs = <<>> THEN <<NoPRs>>
            ELSE <<TableHeadPRs, TableRulePRs>> \o PRLines(prs) \o << <<>> >>)
        \o <<HeadingRepos>>
        \o (IF repos = <<>> THEN <<NoRepos>>
            ELSE <<TableHeadRepos, TableRuleRepos>> \o RepoLines(repos))

---------------------------------------------------------------------------
(* The block renderer: the `children` list built in notion main *)

Heading(level, text) == [type |-> level, text |-> text]
BulletBlock(text)    == [type |-> "bulleted_list_item", text |-> text]

\* A rich-text cell: with a link when `if url:` holds, without otherwise.
PlainCell(content) == [content |-> content]
LinkCell(content, it) ==
    IF Has(it, "url") /\ it.url # <<>>
    THEN [content |-> content, link |-> it.url]
    ELSE [content |-> content]

\* make_table_block: a header given as plain strings becomes rich text
make_table_block(rows, width) ==
    [type |-> "table", table_width |-> width, has_column_header |-> TRUE,
     rows |-> rows]

IssueCells(it) ==
    << PlainCell(NumText(it)),
       PlainCell(StrOr(it, "state", Unknown)),
       PlainCell(LoginOf(it, "author")),
       LinkCell(Strip(StrOrEmpty(it, "title")), it) >>

PRCells(it) ==
    LET ttl == Strip(StrOrEmpty(it, "title"))
    IN  << PlainCell(NumText(it)),
           PlainCell(LabelText[notion_classify_pr(ttl)]),
           PlainCell(StrOr(it, "state", Unknown)),
           PlainCell(LoginOf(it, "author")),
           LinkCell(ttl, it) >>

RepoCells(r) ==
    LET full == Strip(StrOr(r, "fullName", StrOrEmpty(r, "name")))
        desc == Strip(StrOrEmpty(r, "description"))
    IN  << LinkCell(full, r),
           PlainCell(LoginOf(r, "owner")),
           PlainCell(Truncate(desc)) >>

HeaderCells(names) == [i \in 1..Len(names) |-> PlainCell(<<names[i]>>)]

\* for it in issues[:10] / prs[:10] / repos[:10]: rows.append(...)
IssueRows(items) == [i \in 1..Len(FirstRows(items)) |-> IssueCells(FirstRows(items)[i])]
PRRows(items)    == [i \in 1..Len(FirstRows(items)) |-> PRCells(FirstRows(items)[i])]
RepoRows(items)  == [i \in 1..Len(FirstRows(items)) |-> RepoCells(FirstRows(items)[i])]

notion_children(snap) ==
    LET issues == snap.coreIssues
        prs    == snap.corePRs
        repos  == snap.repos
    IN  << Heading("heading_2",
                   <<"GitHub OpenClaw Radar (last ">> \o IntToStr(snap.windowHours) \o <<" h)">>),
           Heading("heading_3", <<"Summary">>),
           BulletBlock(SummaryIssues(Len(issues))),
           BulletBlock(SummaryPRs(Len(prs))),
           BulletBlock(SummaryRepos(Len(repos))),
           Heading("heading_3", <<"openclaw/openclaw Issues">>),
           make_table_block(<<HeaderCells(<<"#", "state", "author", "title">>)>>
                            \o IssueRows(issues), 4),
           Heading("heading_3", <<"openclaw/openclaw Pull Requests">>),
           make_table_block(<<HeaderCells(<<"#", "type", "state", "author", "title">>)>>
                            \o PRRows(prs), 5),
           Heading("heading_3", <<"Recently updated OpenClaw repos">>),
           make_table_block(<<HeaderCells(<<"Repo", "author", "description">>)>>
                            \o RepoRows(repos), 3) >>

---------------------------------------------------------------------------
(* What run_gh can return *)

\* Short lists enumerate every order of the pool records; long lists cycle
\* through the records that parse, numbered by position.
MaxFetch == 2
LongLen  == 16
MaxSeed  == 1

Z(t) == Ts("datetime", t, "Z")

txtFixBar  == <<"F","i","x"," ","|","x">>
txtUrl     == <<"h","t","t","p","s",":","/","/","x","/","5">>

IssuePool ==
    << [number |-> 1, updatedAt |-> Z(90), title |-> txtFixBar, url |-> txtUrl],
       [number |-> 2, createdAt |-> Ts("datetime", 84, "+08:00")],
       [number |-> 3],
       [number |-> 4, updatedAt |-> Ts("garbage", 0, ""), createdAt |-> Z(90)],
       [number |-> 5, updatedAt |-> Z(75)],
       [number |-> 6, updatedAt |-> Ts("datetime", 90, "")] >>

PRPool ==
    << [number |-> 1, updatedAt |-> Z(99), title |-> txtFixBar],
       [number |-> 2, mergedAt |-> Ts("datetime", 71, "-05:00"), url |-> txtUrl],
       [number |-> 3, updatedAt |-> EmptyTs, createdAt |-> EmptyTs, mergedAt |-> Z(60)],
       [number |-> 4],
       [number |-> 5, createdAt |-> Ts("datetime", 95, "")],
       [number |-> 6, updatedAt |-> Ts("garbage", 0, "Z"), mergedAt |-> Z(90)] >>

RepoPool ==
    << [name |-> <<"r","1">>, updatedAt |-> Z(100)],
       [name |-> <<"r","2">>, updatedAt |-> EmptyTs, createdAt |-> Z(130)],
       [name |-> <<"r","3">>, mergedAt |-> Z(90)],
       [name |-> <<"r","4">>, updatedAt |-> Z(10), createdAt |-> Z(90)],
       [name |-> <<"r","5">>, updatedAt |-> Ts("datetime", 99, "")],
       [name |-> <<"r","6">>] >>

Pool(kind) ==
    CASE kind = "coreIssues" -> IssuePool
      [] kind = "corePRs"    -> PRPool
      [] kind = "repos"      -> RepoPool

\* Positions of the pool records whose timestamps all parse to aware datetimes
CyclePositions == <<1, 2, 3, 1>>

LongList(kind, seed) ==
    [i \in 1..LongLen |->
        [number |-> 100 + i] @@ Pool(kind)[CyclePositions[((i + seed) % Len(CyclePositions)) + 1]]]

RECURSIVE ListsUpTo(_, _)
ListsUpTo(S, n) ==
    IF n = 0 THEN {<<>>}
    ELSE LET shorter == ListsUpTo(S, n - 1)
         IN  shorter \cup {Append(l, x) : l \in shorter, x \in S}

GhLists(kind) ==
    ListsUpTo({Pool(kind)[i] : i \in 1..Len(Pool(kind))}, MaxFetch)
    \cup {LongList(kind, seed) : seed \in 0..MaxSeed}

---------------------------------------------------------------------------
(* The scripts *)

EnvVars == {"NOTION_API_KEY", "NOTION_PARENT_PAGE_ID"}

NoInput == /\ title = <<>> /\ label = NoLabels

\* github_openclaw_radar.main / notion_write_github_radar.main, at entry
Init ==
    /\ prog \in {"radar", "notion"}
    /\ pc = "main"
    /\ env \in IF prog = "notion" THEN SUBSET EnvVars ELSE {{}}
    /\ now = Now0
    /\ ghOut = <<>> /\ fetched = <<>> /\ snapshot = <<>>
    /\ outputFile = <<>> /\ report = <<>> /\ stdout = <<>>
    /\ children = <<>> /\ posted = <<>> /\ stderr = <<>>
    /\ NoInput

\* notion main: sys.exit(1) when NOTION_API_KEY is not set; radar main has no check
main_entry ==
    /\ pc = "main"
    /\ IF prog = "notion" /\ "NOTION_API_KEY" \notin env
       THEN pc' = "exit1" /\ stderr' = Append(stderr, "NOTION_API_KEY not set in environment")
       ELSE pc' = "build_snapshot" /\ UNCHANGED stderr
    /\ UNCHANGED <<prog, env, now, ghOut, fetched, snapshot, outputFile, report,
                   stdout, children, posted, title, label>>

\* build_snapshot: the dict literal evaluates generatedAt and windowHours first
build_snapshot_begin ==
    /\ pc = "build_snapshot"
    /\ fetched' = [generatedAt |-> now, windowHours |-> WindowHours]
    /\ pc' = "fetch_core_issues"
    /\ UNCHANGED <<prog, env, now, ghOut, snapshot, outputFile, report,
                   stdout, children, posted, title, label, stderr>>

\* A plausible slip: a failed fetch is swallowed and the run goes on without its key.
FetchFailureSwallowed(next) ==
    /\ pc' = next
    /\ UNCHANGED <<ghOut, fetched, stderr>>

\* run_gh raised (CalledProcessError, JSONDecodeError): nothing catches it,
\* the script dies with a traceback.
FetchFailure(next) ==
    /\ pc' = "crashed"
    /\ stderr' = Append(stderr, "run_gh failed")
    /\ UNCHANGED <<ghOut, fetched>>

\* One fetch_* call: run_gh, then the filter loop.
Fetch(kind, next) ==
    \/ FetchFailure(next)
    \/ \E raw \in GhLists(kind) :
          LET r == FilterRecent(raw, kind, fetched.windowHours, now)
          IN  /\ ghOut' = raw
              /\ IF r.exc # "none"
                 THEN /\ pc' = "crashed"
                      /\ stderr' = Append(stderr, r.exc)
                      /\ UNCHANGED fetched
                 ELSE /\ fetched' = (kind :> r.val) @@ fetched
                      /\ pc' = next
                      /\ UNCHANGED stderr

fetch_core_issues ==
    /\ pc = "fetch_core_issues"
    /\ Fetch("coreIssues", "fetch_core_prs")
    /\ UNCHANGED <<prog, env, now, snapshot, outputFile, report,
                   stdout, children, posted, title, label>>

fetch_core_prs ==
    /\ pc = "fetch_core_prs"
    /\ Fetch("corePRs", "fetch_openclaw_repos")
    /\ UNCHANGED <<prog, env, now, snapshot, outputFile, report,
                   stdout, children, posted, title, label>>

fetch_openclaw_repos ==
    /\ pc = "fetch_openclaw_repos"
    /\ Fetch("repos", "build_snapshot_return")
    /\ UNCHANGED <<prog, env, now, snapshot, outputFile, report,
                   stdout, children, posted, title, label>>

\* return snapshot: the fetch functions' locals are gone
build_snapshot_return ==
    /\ pc = "build_snapshot_return"
    /\ snapshot' = fetched
    /\ ghOut' = <<>>
    /\ pc' = IF prog = "radar" THEN "write_text" ELSE "summarize"
    /\ UNCHANGED <<prog, env, now, fetched, outputFile, report,
                   stdout, children, posted, title, label, stderr>>

\* OUTPUT_PATH.write_text(json.dumps(snapshot, ...))
write_text ==
    /\ pc = "write_text"
    /\ outputFile' = <<[json |-> snapshot]>>
    /\ pc' = "summarize"
    /\ UNCHANGED <<prog, env, now, ghOut, fetched, snapshot, report,
                   stdout, children, posted, title, label, stderr>>

\* report = summarize(snapshot)
summarize_call ==
    /\ pc = "summarize"
    /\ report' = summarize(snapshot)
    /\ pc' = IF prog = "radar" THEN "print" ELSE "children"
    /\ UNCHANGED <<prog, env, now, ghOut, fetched, snapshot, outputFile,
                   stdout, children, posted, title, label, stderr>>

\* print(report)
print_report ==
    /\ pc = "print"
    /\ stdout' = report
    /\ pc' = "done"
    /\ UNCHANGED <<prog, env, now, ghOut, fetched, snapshot, outputFile, report,
                   children, posted, title, label, stderr>>

\* notion main, from `children = []` to the last children.append
build_children ==
    /\ pc = "children"
    /\ children' = notion_children(snapshot)
    /\ pc' = "parent_page"
    /\ UNCHANGED <<prog, env, now, ghOut, fetched, snapshot, outputFile, report,
                   stdout, posted, title, label, stderr>>

\* sys.exit(1) when NOTION_PARENT_PAGE_ID is not set
check_parent_page ==
    /\ pc = "parent_page"
    /\ IF "NOTION_PARENT_PAGE_ID" \in env
       THEN pc' = "post" /\ UNCHANGED stderr
       ELSE pc' = "exit1" /\ stderr' = Append(stderr, "NOTION_PARENT_PAGE_ID not set in environment")
    /\ UNCHANGED <<prog, env, now, ghOut, fetched, snapshot, outputFile, report,
                   stdout, children, posted, title, label>>

\* requests.post(NOTION_API_URL, headers=headers, json=payload, timeout=30)
post_page ==
    /\ pc = "post"
    /\ posted' = Append(posted, [children |-> children])
    /\ pc' = "response"
    /\ UNCHANGED <<prog, env, now, ghOut, fetched, snapshot, outputFile, report,
                   stdout, children, title, label, stderr>>

\* The call raised, or answered with a status >= 400 (exit 1), or succeeded.
post_response ==
    /\ pc = "response"
    /\ \E outcome \in {"raised", "error", "created"} :
          /\ pc' = CASE outcome = "raised"  -> "crashed"
                     [] outcome = "error"   -> "exit1"
                     [] outcome = "created" -> "done"
          /\ stdout' = IF outcome = "created"
                       THEN << <<"Notion page created with id: ">> >>
                       ELSE stdout
          /\ stderr' = CASE outcome = "raised"  -> Append(stderr, "requests.post failed")
                         [] outcome = "error"   -> Append(stderr, "Notion API error:")
                         [] outcome = "created" -> stderr
    /\ UNCHANGED <<prog, env, now, ghOut, fetched, snapshot, outputFile, report,
                   children, posted, title, label>>

Next ==
    \/ main_entry
    \/ build_snapshot_begin
    \/ fetch_core_issues
    \/ fetch_core_prs
    \/ fetch_openclaw_repos
    \/ build_snapshot_return
    \/ write_text
    \/ summarize_call
    \/ print_report
    \/ build_children
    \/ check_parent_page
    \/ post_page
    \/ post_response

Spec == Init /\ [][Next]_vars

---------------------------------------------------------------------------
(* The renderers on snapshots of any length: build_snapshot has returned *)

MaxRecords    == 11
MaxRenderSeed == 0

txtFixCrash == <<"F","i","x"," ","c","r","a","s","h"," ","o","n"," ","l","o","a","d">>
txtAddDark  == <<"A","d","d"," ","d","a","r","k"," ","m","o","d","e">>
txtRefactorTheFixModule ==
    <<"R","e","f","a","c","t","o","r"," ","t","h","e"," ","f","i","x"," ",
      "m","o","d","u","l","e">>
txtPaddedDocs == <<" "," ","a","|","b"," ","d","o","c","s"," ","\n">>
txtFixDocsTypo == <<"F","i","x"," ","d","o","c","s","|","t","y","p","o">>
txtOpen   == <<"O","P","E","N">>
txtMerged == <<"M","E","R","G","E","D">>
txtAnn    == <<"a","n","n">>
txtBarLogin == <<"a","|","b">>
txtOrgRepo  == <<"o","r","g","/","r","e","p","o">>

\* n characters, no two neighbours equal, starting at offset k
Filler(n, k) == [i \in 1..n |-> LowerCase[((i + k) % Len(LowerCase)) + 1]]

\* Each choice is the part of a record that holds the field, <<>> when the
\* field is missing or null.
TitleChoices ==
    << [title |-> txtFixCrash], <<>>, [title |-> txtAddDark], [title |-> <<>>],
       [title |-> txtRefactorTheFixModule], [title |-> txtPaddedDocs],
       [title |-> txtFixDocsTypo] >>
StateChoices ==
    << [state |-> txtOpen], <<>>, [state |-> txtMerged], [state |-> <<>>] >>
AuthorChoices ==
    << [author |-> [login |-> txtAnn]], <<>>, [author |-> [login |-> <<>>]],
       [author |-> [id |-> 7]], [author |-> [login |-> txtBarLogin]] >>
OwnerChoices ==
    << [owner |-> [login |-> txtAnn]], <<>>, [owner |-> [login |-> <<>>]],
       [owner |-> [id |-> 7]], [owner |-> [login |-> txtBarLogin]] >>
UrlChoices ==
    << [url |-> txtUrl], <<>>, [url |-> <<>>] >>
NameChoices ==
    << [fullName |-> txtOrgRepo, name |-> <<"r","e","p","o">>],
       [name |-> <<"s","o","l","o">>],
       [fullName |-> <<>>, name |-> <<" ","n","|","m">>],
       <<>> >>
DescChoices ==
    << [description |-> Filler(TruncLimit + 5, 0)],
       <<>>,
       [description |-> Filler(TruncLimit, 3)],
       [description |-> Filler(TruncLimit - 1, 1) \o <<" "," "," "," "," "," ">>],
       [description |-> Filler(TruncLimit + 1, 7)],
       [description |-> <<" ","a"," ","|"," ","b"," ">>],
       [description |-> Filler(TruncKeep, 2) \o <<"|","|","|","|","|">>] >>

Pick(choices, k) == choices[(k % Len(choices)) + 1]

ActivityAt(k) ==
    [number |-> k] @@ Pick(TitleChoices, k) @@ Pick(StateChoices, k)
    @@ Pick(AuthorChoices, k) @@ Pick(UrlChoices, k)

RepoAt(k) ==
    Pick(NameChoices, k) @@ Pick(DescChoices, k) @@ Pick(OwnerChoices, k)
    @@ Pick(UrlChoices, k)

Snapshots ==
    { [generatedAt |-> Now0, windowHours |-> WindowHours,
       coreIssues |-> [i \in 1..ni |-> ActivityAt(seed + i)],
       corePRs    |-> [i \in 1..np |-> ActivityAt(seed + i + 2)],
       repos      |-> [i \in 1..nr |-> RepoAt(seed + i)]] :
      ni \in 0..MaxRecords, np \in 0..MaxRecords, nr \in 0..MaxRecords,
      seed \in 0..MaxRenderSeed }

InitRender ==
    /\ prog \in {"radar", "notion"}
    /\ pc = IF prog = "radar" THEN "write_text" ELSE "summarize"
    /\ env = IF prog = "notion" THEN EnvVars ELSE {}
    /\ now = Now0
    /\ snapshot \in Snapshots
    /\ fetched = snapshot
    /\ ghOut = <<>>
    /\ outputFile = <<>> /\ report = <<>> /\ stdout = <<>>
    /\ children = <<>> /\ posted = <<>> /\ stderr = <<>>
    /\ NoInput

NextRender ==
    \/ write_text
    \/ summarize_call
    \/ print_report
    \/ build_children
    \/ check_parent_page
    \/ post_page
    \/ post_response

SpecRender == InitRender /\ [][NextRender]_vars

---------------------------------------------------------------------------
(* Reading the outputs back: what a reader of the report and of the page    *)
(* sees.                                                                    *)

Min(a, b) == IF a < b THEN a ELSE b

LineIndex(lines, line) == CHOOSE i \in 1..Len(lines) : lines[i] = line

IsDataRow(line) == line # <<>> /\ line[1] = "|"

\* The data rows of the table that follows `heading`, up to line `last`
TableRows(lines, heading, last) ==
    SelectSeq(SubSeq(lines, LineIndex(lines, heading) + 1, last), IsDataRow)

TextIssueRows == TableRows(report, HeadingIssues, LineIndex(report, HeadingPRs) - 1)
TextPRRows    == TableRows(report, HeadingPRs, LineIndex(report, HeadingRepos) - 1)
TextRepoRows  == TableRows(report, HeadingRepos, Len(report))

BlockIssueRows == Tail(children[7].rows)
BlockPRRows    == Tail(children[9].rows)
BlockRepoRows  == Tail(children[11].rows)

\* The cells of a markdown table row: the text between the "|" separators
RECURSIVE SplitBar(_)
SplitBar(line) ==
    IF \A i \in 1..Len(line) : line[i] # "|" THEN <<line>>
    ELSE LET k == CHOOSE i \in 1..Len(line) :
                     line[i] = "|" /\ \A j \in 1..(i - 1) : line[j] # "|"
         IN  <<SubSeq(line, 1, k - 1)>> \o SplitBar(SubSeq(line, k + 1, Len(line)))

CountBars(line) == Cardinality({i \in 1..Len(line) : line[i] = "|"})

\* The text of cell number c of a row, without the blank on each side
CellText(row, c) ==
    LET cell == SplitBar(row)[c + 1]
    IN  SubSeq(cell, 2, Len(cell) - 1)

LastCellText(row) == CellText(row, Len(SplitBar(row)) - 2)

HasUrl(it) == Has(it, "url") /\ it.url # <<>>

\* summarize has just returned `report`
TextRendered == pc \in {"print", "children"}

\* notion main has just appended the last block, after summarize returned
BlocksBuilt == pc = "parent_page"

---------------------------------------------------------------------------
(* Claims *)

\* C1: the text report and the Notion blocks state the same three summary
\* sentences (the same counts), and every PR row they both show carries the
\* same classification label, although the text renderer classifies the
\* title after "|" was replaced and the block renderer uses its own copy of
\* classify_pr on the unreplaced title.
C1_RenderersAgree ==
    BlocksBuilt =>
        LET textRows  == TextPRRows
            blockRows == BlockPRRows
        IN  /\ \A j \in 3..5 : report[j] = Bullet \o children[j].text
            /\ Len(textRows) = Len(blockRows)
            /\ \A i \in 1..Len(textRows) :
                  CellText(textRows[i], 2) = blockRows[i][2].content

\* C1 witness: both outputs exist for a snapshot with more PRs than rows, one
\* displayed PR having a "|" in its title.
C1_Witness ==
    /\ BlocksBuilt
    /\ Len(snapshot.corePRs) > DisplayCap
    /\ \E i \in 1..DisplayCap :
          /\ Has(snapshot.corePRs[i], "title")
          /\ Contains(snapshot.corePRs[i].title, <<"|">>)
          /\ children[9].rows[i + 1][2].content = LabelText["bug"]

\* The clauses of the decision list, in priority order, over a lowercased title
ClauseMatches(c, t) ==
    CASE c = 1 -> StartsWith(t, kwFix) \/ Contains(t, kwBug) \/ Contains(t, kwError)
      [] c = 2 -> StartsWith(t, kwFeat) \/ Contains(t, kwFeature) \/ Contains(t, kwAdd)
      [] c = 3 -> StartsWith(t, kwDocs) \/ Contains(t, kwDoc) \/ Contains(t, kwReadme)
      [] c = 4 -> Contains(t, kwRefactor)
      [] c = 5 -> TRUE

ClauseLabels == <<"bug", "feature", "docs", "refactor", "other">>

\* C2: classify_pr (both copies) returns the label of the first clause, in
\* the order bug, feature, docs, refactor, other, that the lowercased title
\* matches; so a title starting with "fix" in any case is bug whatever else
\* it contains, and the empty title is other.
C2_FirstMatchWins ==
    pc = "done" =>
        LET t == Lower(title)
        IN  /\ \A c \in 1..5 :
                  (label.radar = ClauseLabels[c]) <=>
                      (ClauseMatches(c, t) /\ \A b \in 1..(c - 1) : ~ClauseMatches(b, t))
            /\ label.notion = label.radar
            /\ (StartsWith(t, kwFix) => label.radar = "bug")
            /\ (title = <<>> => label.radar = "other")

\* C2 witness: a title that starts with "Fix" and also contains "doc" and
\* "refactor" has been classified bug.
C2_Witness ==
    /\ pc = "done"
    /\ StartsWith(title, <<"F","i","x">>)
    /\ Contains(Lower(title), kwDoc)
    /\ Contains(Lower(title), kwRefactor)
    /\ label.radar = "bug"

\* C3 as claimed: "Refactor the fix module" classifies as bug.
C3_Original ==
    (pc = "done" /\ title = txtRefactorTheFixModule) => label.radar = "bug"

\* C3 amended: "Refactor the fix module" classifies as refactor; "fix" is
\* tested as a prefix only, so a title that has "fix" only after its first
\* character is bug only when it contains "bug" or "error".
C3_FixIsPrefixOnly ==
    pc = "done" =>
        LET t == Lower(title)
        IN  /\ title = txtRefactorTheFixModule => label.radar = "refactor"
            /\ (Contains(t, kwFix) /\ ~StartsWith(t, kwFix) /\ label.radar = "bug")
                  => (Contains(t, kwBug) \/ Contains(t, kwError))

\* C3 witness: the title of the claim has been classified.
C3_Witness ==
    pc = "done" /\ title = txtRefactorTheFixModule /\ label.radar = "refactor"

\* The UTC hour a timestamp string denotes, when it is well-formed and
\* carries "Z" or an offset
DenotesInstant(ts) == ts.body = "datetime" /\ ts.suffix # ""
InstantOf(ts) == IF ts.suffix = "Z" THEN ts.t ELSE ts.t - OffsetHours(ts.suffix)

Present(it, k) == Has(it, k) /\ it[k].body # "empty"

\* Whether the first present timestamp of `fields` is recent at clock `now`
FirstPresentIsRecent(it, fields) ==
    \E f \in 1..Len(fields) :
        /\ Present(it, fields[f])
        /\ \A e \in 1..(f - 1) : ~Present(it, fields[e])
        /\ DenotesInstant(it[fields[f]])
        /\ now - InstantOf(it[fields[f]]) <= 24

KeepIssueOrRepo(it) == FirstPresentIsRecent(it, <<"updatedAt", "createdAt">>)
KeepPR(it) == FirstPresentIsRecent(it, <<"updatedAt", "createdAt", "mergedAt">>)

\* C4: what each fetch contributes to the snapshot is exactly the
\* subsequence, in fetch order, of the records run_gh returned whose best
\* timestamp is present and recent; nothing is capped, duplicated or
\* re-ordered, and build_snapshot returns these three sequences.
C4_SnapshotIsFilteredFetch ==
    /\ pc = "fetch_core_prs" => fetched.coreIssues = SelectSeq(ghOut, KeepIssueOrRepo)
    /\ pc = "fetch_openclaw_repos" => fetched.corePRs = SelectSeq(ghOut, KeepPR)
    /\ pc = "build_snapshot_return" => fetched.repos = SelectSeq(ghOut, KeepIssueOrRepo)
    /\ snapshot # <<>> =>
          /\ snapshot.coreIssues = fetched.coreIssues
          /\ snapshot.corePRs = fetched.corePRs
          /\ snapshot.repos = fetched.repos

\* C4 witness: a PR fetch kept more than 10 records and dropped others, one
\* of the kept ones having only mergedAt.
C4_Witness ==
    /\ pc = "fetch_openclaw_repos"
    /\ Len(fetched.corePRs) > DisplayCap
    /\ Len(fetched.corePRs) < Len(ghOut)
    /\ \E i \in 1..Len(fetched.corePRs) :
          ~Has(fetched.corePRs[i], "updatedAt") /\ ~Has(fetched.corePRs[i], "createdAt")

\* C5 as claimed: is_recent never surfaces an error, whatever the string.
C5_Original ==
    \A i \in 1..Len(stderr) : stderr[i] # TypeError

\* C6: a run whose fetch failed has produced nothing, and whatever a run
\* has produced (snapshot, JSON file, report, POST) was produced after all
\* three fetches succeeded, from a snapshot that holds all three results.
C6_NoPartialOutput ==
    /\ (snapshot # <<>> \/ outputFile # <<>> \/ report # <<>> \/ stdout # <<>>
          \/ children # <<>> \/ posted # <<>>) =>
          /\ {"coreIssues", "corePRs", "repos"} \subseteq DOMAIN fetched
          /\ snapshot = fetched
    /\ (pc = "crashed" /\ posted = <<>>) =>
          /\ snapshot = <<>> /\ outputFile = <<>> /\ report = <<>>
          /\ stdout = <<>> /\ children = <<>>
    /\ outputFile # <<>> => outputFile = <<[json |-> fetched]>>
    /\ posted # <<>> => posted = <<[children |-> notion_children(fetched)]>>

\* C6 witness: the third fetch failed after two succeeded, and nothing was
\* written, printed or posted.
C6_Witness ==
    /\ pc = "crashed"
    /\ {"coreIssues", "corePRs"} \subseteq DOMAIN fetched
    /\ "repos" \notin DOMAIN fetched
    /\ Len(fetched.corePRs) > 0
    /\ outputFile = <<>> /\ posted = <<>>

LinkOnlyWithUrl(row, it) ==
    IF HasUrl(it) THEN Contains(row, <<"]", "(">> \o it.url \o <<")">>)
    ELSE ~Contains(row, <<"]", "(">>)

\* C7 as claimed: a text row links its title (or repo name) when the record
\* has a URL and shows it as plain text, without a link target, when the
\* url is absent or empty.
C7_Original ==
    TextRendered =>
        LET issueRows == TextIssueRows
            prRows    == TextPRRows
            repoRows  == TextRepoRows
        IN  /\ \A i \in 1..Len(issueRows) :
                  LinkOnlyWithUrl(issueRows[i], snapshot.coreIssues[i])
            /\ \A i \in 1..Len(prRows) :
                  LinkOnlyWithUrl(prRows[i], snapshot.corePRs[i])
            /\ \A i \in 1..Len(repoRows) :
                  LinkOnlyWithUrl(repoRows[i], snapshot.repos[i])

\* C8 as claimed: every data row of the text tables has exactly columns + 1
\* separators, whatever the field values.
C8_Original ==
    TextRendered =>
        LET issueRows == TextIssueRows
            prRows    == TextPRRows
            repoRows  == TextRepoRows
        IN  /\ \A i \in 1..Len(issueRows) : CountBars(issueRows[i]) = 5
            /\ \A i \in 1..Len(prRows) : CountBars(prRows[i]) = 6
            /\ \A i \in 1..Len(repoRows) : CountBars(repoRows[i]) = 4

\* C9: in both renderers each table has exactly min(n, 10) data rows, the
\* rows of the first min(n, 10) records in snapshot order, and each summary
\* bullet states the total n.
C9_RowsAndCounts ==
    LET issues == snapshot.coreIssues
        prs    == snapshot.corePRs
        repos  == snapshot.repos
    IN  /\ TextRendered =>
              /\ report[3] = Bullet \o SummaryIssues(Len(issues))
              /\ report[4] = Bullet \o SummaryPRs(Len(prs))
              /\ report[5] = Bullet \o SummaryRepos(Len(repos))
              /\ TextIssueRows = [i \in 1..Min(Len(issues), 10) |-> IssueLine(issues[i])]
              /\ TextPRRows = [i \in 1..Min(Len(prs), 10) |-> PRLine(prs[i])]
              /\ TextRepoRows = [i \in 1..Min(Len(repos), 10) |-> RepoLine(repos[i])]
        /\ BlocksBuilt =>
              /\ children[3].text = SummaryIssues(Len(issues))
              /\ children[4].text = SummaryPRs(Len(prs))
              /\ children[5].text = SummaryRepos(Len(repos))
              /\ BlockIssueRows = [i \in 1..Min(Len(issues), 10) |-> IssueCells(issues[i])]
              /\ BlockPRRows = [i \in 1..Min(Len(prs), 10) |-> PRCells(prs[i])]
              /\ BlockRepoRows = [i \in 1..Min(Len(repos), 10) |-> RepoCells(repos[i])]

\* C9 witness: both outputs exist for a snapshot whose three sequences are
\* all longer than the tables.
C9_Witness ==
    /\ BlocksBuilt
    /\ Len(snapshot.coreIssues) > DisplayCap
    /\ Len(snapshot.corePRs) > DisplayCap
    /\ Len(snapshot.repos) > DisplayCap
    /\ Len(TextRepoRows) = DisplayCap /\ Len(BlockIssueRows) = DisplayCap

Shortened(d) == IF Len(d) > 80 THEN SubSeq(d, 1, 77) \o <<".", ".", ".">> ELSE d

\* C10 as claimed: the description as the record holds it renders as its
\* first 77 characters plus "..." when it is longer than 80, and unchanged
\* otherwise.
C10_Original ==
    /\ TextRendered =>
          LET rows == TextRepoRows
          IN  \A i \in 1..Len(rows) :
                  LastCellText(rows[i])
                      = Shortened(StrOrEmpty(snapshot.repos[i], "description"))
    /\ BlocksBuilt =>
          LET rows == BlockRepoRows
          IN  \A i \in 1..Len(rows) :
                  rows[i][3].content
                      = Shortened(StrOrEmpty(snapshot.repos[i], "description"))

\* C10 amended: the rule applies to the description after strip() (and, in
\* the text renderer, after "|" became U+2016): longer than 80, it renders
\* as its first 77 characters plus "...", 80 in all; otherwise as it is; no
\* rendered description is longer than 80.
C10_TruncationAfterStrip ==
    /\ TextRendered =>
          LET rows == TextRepoRows
          IN  \A i \in 1..Len(rows) :
                  LET d == Replace(Strip(StrOrEmpty(snapshot.repos[i], "description")),
                                   "|", DoubleBar)
                      shown == LastCellText(rows[i])
                  IN  /\ shown = Shortened(d)
                      /\ Len(shown) <= 80
                      /\ Len(d) > 80 => Len(shown) = 80
    /\ BlocksBuilt =>
          LET rows == BlockRepoRows
          IN  \A i \in 1..Len(rows) :
                  LET d == Strip(StrOrEmpty(snapshot.repos[i], "description"))
                      shown == rows[i][3].content
                  IN  /\ shown = Shortened(d)
                      /\ Len(shown) <= 80
                      /\ Len(d) > 80 => Len(shown) = 80

\* C10 witness: both outputs show a description of 85 characters cut to 80
\* and one of exactly 80 characters left whole.
C10_Witness ==
    /\ BlocksBuilt
    /\ LET rows == BlockRepoRows
           text == TextRepoRows
       IN  /\ \E i \in 1..Len(rows) :
                 /\ Len(StrOrEmpty(snapshot.repos[i], "description")) = 85
                 /\ Len(rows[i][3].content) = 80
                 /\ Len(LastCellText(text[i])) = 80
           /\ \E i \in 1..Len(rows) :
                 /\ Len(StrOrEmpty(snapshot.repos[i], "description")) = 80
                 /\ rows[i][3].content = snapshot.repos[i].description

===========================================================================
